---- MODULE Spec2Model ----
(***************************************************************************)
(* Model of the scan pipeline of src/server.js: the POST /guru-scan        *)
(* handler, uploadToImgBB, googleLensSearch, demoResults and the files the  *)
(* handler touches (multer's staged upload, scan_history/<id>/image<ext>,  *)
(* scan_history/<id>/meta.json and scan_history/history.jsonl).            *)
(*                                                                         *)
(* Node runs a handler to completion between two awaits.  The handler has  *)
(* two awaits (lines 32 and 35); everything from line 38 to line 78 is     *)
(* synchronous.  The model keeps one action per statement of that block    *)
(* and the variable `running` names the request that holds the event loop. *)
(***************************************************************************)
EXTENDS Integers, Sequences, FiniteSets, TLC

\* ---------------------------------------------------------------- bounds
NumReq == 2      \* concurrent POST /guru-scan requests
MaxTime == 2     \* values Date.now() takes during the run (1..MaxTime)
MaxRaw == 31     \* longest visual_matches list the provider returns
MaxFaults == 2   \* failures the environment injects in one run

\* ------------------------------------------------------ program constants
Limit == 30      \* slice(0, 30)

Requests == 1..NumReq
Times == 1..MaxTime

Undefined == "undefined"     \* JavaScript's undefined, for string-valued fields

\* ------------------------------------------------------------ path.extname
\* Names are sequences of one-character strings.
LastDot(s) ==
  LET D == {i \in 1..Len(s) : s[i] = "."}
  IN  IF D = {} THEN 0 ELSE CHOOSE i \in D : \A j \in D : j <= i

\* '' when there is no dot or the only dot is the first character.
extname(s) ==
  LET d == LastDot(s)
  IN  IF d <= 1 THEN <<>> ELSE SubSeq(s, d, Len(s))

\* req.file.originalname || 'upload'
OriginalName(file) ==
  IF file.originalname = <<>> THEN <<"u", "p", "l", "o", "a", "d">>
  ELSE file.originalname

\* path.extname(originalName) || '.jpg'
Ext(file) ==
  LET e == extname(OriginalName(file))
  IN  IF e = <<>> THEN <<".", "j", "p", "g">> ELSE e

\* `image${ext}`
SavedImageName(file) == <<"i", "m", "a", "g", "e">> \o Ext(file)

\* path.join(scanFolder, savedImageName), scanFolder named by timestamp.toString()
SavedImagePath(id, file) == [folder |-> id, name |-> SavedImageName(file)]

\* ------------------------------------------------------------ demoResults
demoResults ==
  << [title |-> "Facebook Guru Profile", source |-> "Facebook", link |-> "#",
      image |-> "https://via.placeholder.com/300x200/1877F2/fff"],
     [title |-> "Twitter Guru Post", source |-> "Twitter", link |-> "#",
      image |-> "https://via.placeholder.com/300x200/1DA1F2/fff"] >>

\* -------------------------------------------------------- googleLensSearch
\* a || b on string-valued fields: undefined and '' are falsy.
Or(a, b) == IF a = Undefined \/ a = "" THEN b ELSE a

\* The object pushed for one raw match.
MatchResult(match) ==
  [title  |-> Or(match.title, "Visual Match"),
   source |-> Or(match.source, "Web"),
   link   |-> Or(match.link, "#"),
   image  |-> Or(match.thumbnail, match.image)]

\* Mutant of Slice: slice(0, 31).
SliceOneMore(vm) == SubSeq(vm, 1, IF Len(vm) < Limit + 1 THEN Len(vm) ELSE Limit + 1)

\* visual_matches.slice(0, 30)
Slice(vm) == SubSeq(vm, 1, IF Len(vm) < Limit THEN Len(vm) ELSE Limit)

\* Mutant of googleLensSearch: an empty list is returned as it is.
googleLensSearchNoFallback(resp) ==
  IF resp.kind # "ok" THEN demoResults
  ELSE LET sliced == IF resp.present THEN Slice(resp.visual_matches) ELSE <<>>
       IN  [i \in 1..Len(sliced) |-> MatchResult(sliced[i])]

\* A provider response is
\*   [kind |-> "throw"]      axios.get rejects
\*   [kind |-> "malformed"]  visual_matches is truthy but iterating it throws
\*   [kind |-> "ok", present |-> BOOLEAN, visual_matches |-> sequence]
\* present = FALSE is a body without visual_matches.
googleLensSearch(resp) ==
  IF resp.kind # "ok" THEN demoResults
  ELSE LET sliced == IF resp.present THEN Slice(resp.visual_matches) ELSE <<>>
           results == [i \in 1..Len(sliced) |-> MatchResult(sliced[i])]
       IN  IF Len(results) # 0 THEN results ELSE demoResults

\* --------------------------------------------------------- JSON.stringify
\* A property whose value is undefined is left out of the text.
JsonMatch(m) ==
  IF m.image = Undefined
  THEN [title |-> m.title, source |-> m.source, link |-> m.link]
  ELSE m

JsonResults(rs) == [i \in 1..Len(rs) |-> JsonMatch(rs[i])]

\* new Date(timestamp).toISOString(), for the millisecond values of the model
toISOString(t) ==
  "1970-01-01T00:00:00." \o (IF t < 10 THEN "00" ELSE IF t < 100 THEN "0" ELSE "")
                         \o ToString(t) \o "Z"

\* ------------------------------------------------------------------ state
VARIABLES
  now,        \* Date.now()
  faults,     \* failures injected so far
  running,    \* request inside its synchronous block (0: event loop free)
  pc,         \* position of each request's handler
  file,       \* req.file of each request
  imgbbUrl,   \* const imgbbUrl
  searchUrl,  \* argument googleLensSearch was called with
  provider,   \* what the search provider answered
  lensResults,\* const lensResults
  timestamp,  \* const timestamp (0 until line 39 ran)
  perr,       \* statement of the persist block that threw ("" if none)
  uerr,       \* fs.unlinkSync threw
  response,   \* what res sent
  trace,      \* steps each request has taken, in order
  lineOf,     \* index in history.jsonl of the line a request appended (0: none)
  tmp,        \* requests whose staged file exists in uploads/
  dirs,       \* scan folders that exist in scan_history/
  images,     \* retained image copies: path -> request whose bytes it holds
  meta,       \* meta.json of each scan folder
  log         \* lines of history.jsonl

vars == <<now, faults, running, pc, file, imgbbUrl, searchUrl, provider, lensResults,
          timestamp, perr, uerr, response, trace, lineOf, tmp, dirs, images,
          meta, log>>

reqVars == <<pc, file, imgbbUrl, searchUrl, provider, lensResults, timestamp,
             perr, uerr, response, trace, lineOf>>

\* ----------------------------------------------------------------- inputs
NoFile == [present |-> FALSE, originalname |-> <<>>]

Upload(n) == [present |-> TRUE, originalname |-> n]

\* Uploads when several requests run together: no file part, or a.png.
Uploads == {NoFile, Upload(<<"a", ".", "p", "n", "g">>)}

\* Uploads of a single scan: photo.JPG, a name without extension, a dot file,
\* a name ending in a dot, an empty name.
UploadsOne ==
  {NoFile} \cup
  {Upload(n) : n \in { <<"p", ".", "J", "P", "G">>, <<"a">>, <<".", "b">>,
                       <<"a", ".">>, <<>> }}

\* The image host gives every upload a URL of its own.
UrlOf(r) == "https://i.ibb.co/" \o ToString(r) \o ".png"

UrlsOne == {UrlOf(1), "https://img.example/x.png"}

UploadErrors == {"auth error", "Cannot read properties of undefined (reading 'url')"}

NoFileError == "Cannot read properties of undefined (reading 'path')"

\* Raw match i of the provider; bit b of pattern p set: field b is missing.
Bit(p, b) == (p \div (2 ^ b)) % 2 = 1

Field(p, b, v) == IF Bit(p, b) THEN Undefined ELSE v

NumPatterns == 2 ^ 5

RawMatch(i, p) ==
  [title     |-> Field(p, 0, "m" \o ToString(i)),
   source    |-> Field(p, 1, "s" \o ToString(i)),
   link      |-> Field(p, 2, "l" \o ToString(i)),
   thumbnail |-> Field(p, 3, "t" \o ToString(i)),
   image     |-> Field(p, 4, "i" \o ToString(i))]

\* n raw matches m0 .. m(n-1); match i misses the fields of pattern (i + k).
RawList(n, k) == [j \in 1..n |-> RawMatch(j - 1, (j - 1 + k) % NumPatterns)]

\* A match whose fields are all the empty string.
EmptyStrMatch == [title |-> "", source |-> "", link |-> "", thumbnail |-> "", image |-> ""]

NoProvider == [kind |-> "none"]
Throw == [kind |-> "throw"]
Malformed == [kind |-> "malformed"]
Ok(vm) == [kind |-> "ok", present |-> TRUE, visual_matches |-> vm]
NoMatches == [kind |-> "ok", present |-> FALSE, visual_matches |-> <<>>]

\* Provider answers when several requests run together.
ScanResponses == {Throw, Ok(RawList(2, 30))}

Offsets == {0, 16}

\* Provider answers of a single scan.
LensResponses ==
  {Throw, Malformed, NoMatches, Ok(<<EmptyStrMatch>>)} \cup
  {Ok(RawList(n, k)) : n \in 0..MaxRaw, k \in Offsets}

NoResponse == [status |-> 0, body |-> [success |-> FALSE]]

Init ==
  /\ now = 1
  /\ faults = 0
  /\ running = 0
  /\ pc = [r \in Requests |-> "idle"]
  /\ file = [r \in Requests |-> NoFile]
  /\ imgbbUrl = [r \in Requests |-> Undefined]
  /\ searchUrl = [r \in Requests |-> Undefined]
  /\ provider = [r \in Requests |-> NoProvider]
  /\ lensResults = [r \in Requests |-> <<>>]
  /\ timestamp = [r \in Requests |-> 0]
  /\ perr = [r \in Requests |-> ""]
  /\ uerr = [r \in Requests |-> FALSE]
  /\ response = [r \in Requests |-> NoResponse]
  /\ trace = [r \in Requests |-> <<>>]
  /\ lineOf = [r \in Requests |-> 0]
  /\ tmp = {}
  /\ dirs = {}
  /\ images = <<>>
  /\ meta = <<>>
  /\ log = <<>>

\* --------------------------------------------------------------- helpers
Log(r, ev) == [trace EXCEPT ![r] = Append(@, ev)]

\* The files of one request's scan folder.
metaPath(id) == id
Put(f, k, v) == [x \in DOMAIN f \cup {k} |-> IF x = k THEN v ELSE f[x]]

\* Mutant of entry: total_matches counts the raw matches of the provider.
entryRawCount(r) ==
  [id |-> timestamp[r],
   created_at |-> toISOString(timestamp[r]),
   original_image_path |-> SavedImagePath(timestamp[r], file[r]),
   imgbb_url |-> imgbbUrl[r],
   total_matches |-> IF provider[r].kind = "ok" THEN Len(provider[r].visual_matches) ELSE 0,
   results |-> lensResults[r]]

\* const entry = { id, created_at, original_image_path, imgbb_url, total_matches, results }
entry(r) ==
  [id |-> timestamp[r],
   created_at |-> toISOString(timestamp[r]),
   original_image_path |-> SavedImagePath(timestamp[r], file[r]),
   imgbb_url |-> imgbbUrl[r],
   total_matches |-> Len(lensResults[r]),
   results |-> lensResults[r]]

\* The JSON value JSON.stringify(entry) writes.
JsonEntry(e) == [e EXCEPT !.results = JsonResults(e.results)]

\* JSON.stringify(value, null, indent) and the text appended after it.
stringify(e, indent, tail) == [json |-> JsonEntry(e), indent |-> indent, tail |-> tail]

\* A call of the environment fails (ok = FALSE) at most MaxFaults times in a run.
Fault(ok) ==
  IF ok THEN UNCHANGED faults
  ELSE faults < MaxFaults /\ faults' = faults + 1

\* ---------------------------------------------------------------- actions
\* Date.now() advances.
Tick ==
  /\ UNCHANGED faults
  /\ now < MaxTime
  /\ now' = now + 1
  /\ UNCHANGED <<running, reqVars, tmp, dirs, images, meta, log>>

\* Requests are numbered in the order they arrive.
\* upload.single('image') stages the upload, then lines 26-32 run up to the
\* first await.  Without a file part req.file is undefined and line 28 throws.
Receive(r, f) ==
  /\ UNCHANGED faults
  /\ running = 0
  /\ pc[r] = "idle"
  /\ \A q \in Requests : q < r => pc[q] # "idle"
  /\ file' = [file EXCEPT ![r] = f]
  /\ IF f.present
     THEN /\ tmp' = tmp \cup {r}
          /\ pc' = [pc EXCEPT ![r] = "upload"]
          /\ trace' = Log(r, "staged")
          /\ UNCHANGED response
     ELSE /\ pc' = [pc EXCEPT ![r] = "done"]
          /\ response' = [response EXCEPT ![r] =
                            [status |-> 500,
                             body |-> [success |-> FALSE, error |-> NoFileError]]]
          /\ trace' = Log(r, "respond")
          /\ UNCHANGED tmp
  /\ UNCHANGED <<now, running, imgbbUrl, searchUrl, provider, lensResults,
                 timestamp, perr, uerr, lineOf, dirs, images, meta, log>>

\* Mutant of UploadResolve: the search is a blocking call, the handler keeps
\* the event loop while it waits for the provider.
UploadResolveBlocking(r, url) ==
  /\ Fault(TRUE)
  /\ running = 0
  /\ pc[r] = "upload"
  /\ running' = r
  /\ imgbbUrl' = [imgbbUrl EXCEPT ![r] = url]
  /\ searchUrl' = [searchUrl EXCEPT ![r] = url]
  /\ pc' = [pc EXCEPT ![r] = "search"]
  /\ trace' = [trace EXCEPT ![r] = @ \o <<"upload_done", "search_start">>]
  /\ UNCHANGED <<now, file, provider, lensResults, timestamp, perr,
                 uerr, response, lineOf, tmp, dirs, images, meta, log>>

\* uploadToImgBB resolves with response.data.data.url; lines 34-35 call
\* googleLensSearch(imgbbUrl), which awaits axios.get.
UploadResolve(r, url) ==
  /\ Fault(TRUE)
  /\ running = 0
  /\ pc[r] = "upload"
  /\ imgbbUrl' = [imgbbUrl EXCEPT ![r] = url]
  /\ searchUrl' = [searchUrl EXCEPT ![r] = url]
  /\ pc' = [pc EXCEPT ![r] = "search"]
  /\ trace' = [trace EXCEPT ![r] = @ \o <<"upload_done", "search_start">>]
  /\ UNCHANGED <<now, running, file, provider, lensResults, timestamp, perr,
                 uerr, response, lineOf, tmp, dirs, images, meta, log>>

\* Mutant of UploadReject: the rejection is swallowed and the handler goes on
\* to the search with an undefined URL.
UploadRejectSwallowed(r, msg) ==
  /\ Fault(FALSE)
  /\ running = 0
  /\ pc[r] = "upload"
  /\ pc' = [pc EXCEPT ![r] = "search"]
  /\ trace' = [trace EXCEPT ![r] = @ \o <<"upload_failed", "search_start">>]
  /\ UNCHANGED <<now, running, file, imgbbUrl, searchUrl, provider, lensResults,
                 timestamp, perr, uerr, response, lineOf, tmp, dirs, images, meta, log>>

\* uploadToImgBB rejects: the outer catch answers 500 (lines 80-82).
UploadReject(r, msg) ==
  /\ Fault(FALSE)
  /\ running = 0
  /\ pc[r] = "upload"
  /\ pc' = [pc EXCEPT ![r] = "done"]
  /\ response' = [response EXCEPT ![r] =
                    [status |-> 500, body |-> [success |-> FALSE, error |-> msg]]]
  /\ trace' = [trace EXCEPT ![r] = @ \o <<"upload_failed", "respond">>]
  /\ UNCHANGED <<now, running, file, imgbbUrl, searchUrl, provider, lensResults,
                 timestamp, perr, uerr, lineOf, tmp, dirs, images, meta, log>>

\* Mutant of SearchReturn: googleLensSearch has no catch and its rejection is
\* not handled, the request is never answered.
SearchReturnLost(r, resp) ==
  /\ Fault(resp.kind = "ok")
  /\ running = 0
  /\ pc[r] = "search"
  /\ provider' = [provider EXCEPT ![r] = resp]
  /\ IF resp.kind = "ok"
     THEN /\ lensResults' = [lensResults EXCEPT ![r] = googleLensSearch(resp)]
          /\ pc' = [pc EXCEPT ![r] = "mkdir"]
          /\ trace' = Log(r, "search_done")
     ELSE /\ pc' = [pc EXCEPT ![r] = "lost"]
          /\ trace' = Log(r, "search_failed")
          /\ UNCHANGED lensResults
  /\ UNCHANGED <<now, running, file, imgbbUrl, searchUrl, timestamp, perr, uerr,
                 response, lineOf, tmp, dirs, images, meta, log>>

\* Mutant of SearchReturn: googleLensSearch has no catch, a failed search
\* reaches the outer catch of the handler.
SearchReturnPropagates(r, resp) ==
  /\ Fault(resp.kind = "ok")
  /\ running = 0
  /\ pc[r] = "search"
  /\ provider' = [provider EXCEPT ![r] = resp]
  /\ IF resp.kind = "ok"
     THEN /\ lensResults' = [lensResults EXCEPT ![r] = googleLensSearch(resp)]
          /\ pc' = [pc EXCEPT ![r] = "mkdir"]
          /\ trace' = Log(r, "search_done")
          /\ UNCHANGED response
     ELSE /\ pc' = [pc EXCEPT ![r] = "done"]
          /\ response' = [response EXCEPT ![r] =
                            [status |-> 500,
                             body |-> [success |-> FALSE, error |-> "search failed"]]]
          /\ trace' = [trace EXCEPT ![r] = @ \o <<"search_failed", "respond">>]
          /\ UNCHANGED lensResults
  /\ UNCHANGED <<now, running, file, imgbbUrl, searchUrl, timestamp, perr, uerr,
                 lineOf, tmp, dirs, images, meta, log>>

\* The provider answers (or axios.get rejects); googleLensSearch returns.
SearchReturn(r, resp) ==
  /\ Fault(resp.kind = "ok")
  /\ running = 0
  /\ pc[r] = "search"
  /\ provider' = [provider EXCEPT ![r] = resp]
  /\ lensResults' = [lensResults EXCEPT ![r] = googleLensSearch(resp)]
  /\ pc' = [pc EXCEPT ![r] = "mkdir"]
  /\ trace' = Log(r, "search_done")
  /\ UNCHANGED <<now, running, file, imgbbUrl, searchUrl, timestamp, perr, uerr,
                 response, lineOf, tmp, dirs, images, meta, log>>

\* Mutant of PersistMkdir: googleLensSearch is not awaited, the persist block
\* starts while the search is still pending.
PersistMkdirNoAwait(r, ok) ==
  /\ Fault(ok)
  /\ running = 0
  /\ pc[r] \in {"search", "mkdir"}
  /\ running' = r
  /\ timestamp' = [timestamp EXCEPT ![r] = now]
  /\ IF now \in dirs
     THEN /\ ok
          /\ pc' = [pc EXCEPT ![r] = "copy"]
          /\ trace' = Log(r, "mkdir")
          /\ UNCHANGED <<dirs, perr>>
     ELSE IF ok
     THEN /\ dirs' = dirs \cup {now}
          /\ pc' = [pc EXCEPT ![r] = "copy"]
          /\ trace' = Log(r, "mkdir")
          /\ UNCHANGED perr
     ELSE /\ perr' = [perr EXCEPT ![r] = "mkdir"]
          /\ pc' = [pc EXCEPT ![r] = "unlink"]
          /\ trace' = [trace EXCEPT ![r] = @ \o <<"mkdir", "persist_failed">>]
          /\ UNCHANGED dirs
  /\ UNCHANGED <<now, file, imgbbUrl, searchUrl, provider, lensResults, uerr,
                 response, lineOf, tmp, images, meta, log>>

\* Lines 39-43: read the clock, create the scan folder unless it exists.
\* ok = FALSE: mkdirSync throws (caught at line 68).
PersistMkdir(r, ok) ==
  /\ Fault(ok)
  /\ running = 0
  /\ pc[r] = "mkdir"
  /\ running' = r
  /\ timestamp' = [timestamp EXCEPT ![r] = now]
  /\ IF now \in dirs
     THEN /\ ok
          /\ pc' = [pc EXCEPT ![r] = "copy"]
          /\ trace' = Log(r, "mkdir")
          /\ UNCHANGED <<dirs, perr>>
     ELSE IF ok
     THEN /\ dirs' = dirs \cup {now}
          /\ pc' = [pc EXCEPT ![r] = "copy"]
          /\ trace' = Log(r, "mkdir")
          /\ UNCHANGED perr
     ELSE /\ perr' = [perr EXCEPT ![r] = "mkdir"]
          /\ pc' = [pc EXCEPT ![r] = "unlink"]
          /\ trace' = [trace EXCEPT ![r] = @ \o <<"mkdir", "persist_failed">>]
          /\ UNCHANGED dirs
  /\ UNCHANGED <<now, file, imgbbUrl, searchUrl, provider, lensResults, uerr,
                 response, lineOf, tmp, images, meta, log>>

\* Mutant of PersistCopy: await fs.promises.copyFile, the handler yields the
\* event loop in the middle of the persist block.
PersistCopyAwaited(r, ok) ==
  /\ Fault(ok)
  /\ running \in {0, r}
  /\ pc[r] = "copy"
  /\ running' = 0
  /\ IF ok /\ r \in tmp
     THEN /\ images' = Put(images, SavedImagePath(timestamp[r], file[r]), r)
          /\ pc' = [pc EXCEPT ![r] = "append"]
          /\ trace' = Log(r, "copy")
          /\ UNCHANGED perr
     ELSE /\ perr' = [perr EXCEPT ![r] = "copy"]
          /\ pc' = [pc EXCEPT ![r] = "unlink"]
          /\ trace' = [trace EXCEPT ![r] = @ \o <<"copy", "persist_failed">>]
          /\ UNCHANGED images
  /\ UNCHANGED <<now, file, imgbbUrl, searchUrl, provider, lensResults,
                 timestamp, uerr, response, lineOf, tmp, dirs, meta, log>>

\* Mutant of PersistCopy: the copy has a try/catch of its own, a failed copy
\* is swallowed and the block goes on to append the line.
PersistCopySwallowed(r, ok) ==
  /\ Fault(ok)
  /\ running = r
  /\ pc[r] = "copy"
  /\ IF ok /\ r \in tmp
     THEN /\ images' = Put(images, SavedImagePath(timestamp[r], file[r]), r)
          /\ trace' = Log(r, "copy")
     ELSE /\ trace' = Log(r, "copy")
          /\ UNCHANGED images
  /\ pc' = [pc EXCEPT ![r] = "append"]
  /\ UNCHANGED <<now, running, file, imgbbUrl, searchUrl, provider, lensResults,
                 timestamp, perr, uerr, response, lineOf, tmp, dirs, meta, log>>

\* Mutant of PersistCopy: no inner try/catch, a failed copy reaches the outer
\* catch of the handler.
PersistCopyUncaught(r, ok) ==
  /\ Fault(ok)
  /\ running = r
  /\ pc[r] = "copy"
  /\ IF ok /\ r \in tmp
     THEN /\ images' = Put(images, SavedImagePath(timestamp[r], file[r]), r)
          /\ pc' = [pc EXCEPT ![r] = "append"]
          /\ trace' = Log(r, "copy")
          /\ UNCHANGED <<perr, response, running>>
     ELSE /\ perr' = [perr EXCEPT ![r] = "copy"]
          /\ pc' = [pc EXCEPT ![r] = "done"]
          /\ running' = 0
          /\ response' = [response EXCEPT ![r] =
                            [status |-> 500,
                             body |-> [success |-> FALSE, error |-> "copy failed"]]]
          /\ trace' = [trace EXCEPT ![r] = @ \o <<"copy", "persist_failed", "respond">>]
          /\ UNCHANGED images
  /\ UNCHANGED <<now, file, imgbbUrl, searchUrl, provider, lensResults,
                 timestamp, uerr, lineOf, tmp, dirs, meta, log>>

\* Lines 46-51: fs.copyFileSync(imagePath, savedImagePath).
PersistCopy(r, ok) ==
  /\ Fault(ok)
  /\ running = r
  /\ pc[r] = "copy"
  /\ IF ok /\ r \in tmp
     THEN /\ images' = Put(images, SavedImagePath(timestamp[r], file[r]), r)
          /\ pc' = [pc EXCEPT ![r] = "append"]
          /\ trace' = Log(r, "copy")
          /\ UNCHANGED perr
     ELSE /\ perr' = [perr EXCEPT ![r] = "copy"]
          /\ pc' = [pc EXCEPT ![r] = "unlink"]
          /\ trace' = [trace EXCEPT ![r] = @ \o <<"copy", "persist_failed">>]
          /\ UNCHANGED images
  /\ UNCHANGED <<now, running, file, imgbbUrl, searchUrl, provider, lensResults,
                 timestamp, uerr, response, lineOf, tmp, dirs, meta, log>>

\* Mutant of PersistAppend: the append statement stands twice.
PersistAppendTwice(r, ok) ==
  /\ Fault(ok)
  /\ running = r
  /\ pc[r] = "append"
  /\ IF ok
     THEN /\ log' = log \o << stringify(entry(r), 0, "\n"), stringify(entry(r), 0, "\n") >>
          /\ lineOf' = [lineOf EXCEPT ![r] = Len(log) + 2]
          /\ pc' = [pc EXCEPT ![r] = "write"]
          /\ trace' = Log(r, "append")
          /\ UNCHANGED perr
     ELSE /\ perr' = [perr EXCEPT ![r] = "append"]
          /\ pc' = [pc EXCEPT ![r] = "unlink"]
          /\ trace' = [trace EXCEPT ![r] = @ \o <<"append", "persist_failed">>]
          /\ UNCHANGED <<log, lineOf>>
  /\ UNCHANGED <<now, running, file, imgbbUrl, searchUrl, provider, lensResults,
                 timestamp, uerr, response, tmp, dirs, images, meta>>

\* Mutant of PersistAppend: fs.writeFileSync instead of fs.appendFileSync.
PersistAppendOverwrites(r, ok) ==
  /\ Fault(ok)
  /\ running = r
  /\ pc[r] = "append"
  /\ IF ok
     THEN /\ log' = << stringify(entry(r), 0, "\n") >>
          /\ lineOf' = [q \in Requests |-> IF q = r THEN 1 ELSE 0]
          /\ pc' = [pc EXCEPT ![r] = "write"]
          /\ trace' = Log(r, "append")
          /\ UNCHANGED perr
     ELSE /\ perr' = [perr EXCEPT ![r] = "append"]
          /\ pc' = [pc EXCEPT ![r] = "unlink"]
          /\ trace' = [trace EXCEPT ![r] = @ \o <<"append", "persist_failed">>]
          /\ UNCHANGED <<log, lineOf>>
  /\ UNCHANGED <<now, running, file, imgbbUrl, searchUrl, provider, lensResults,
                 timestamp, uerr, response, tmp, dirs, images, meta>>

\* Mutant of PersistAppend: the append has a try/catch of its own, a failed
\* append is swallowed and the block goes on to write meta.json.
PersistAppendContinues(r, ok) ==
  /\ Fault(ok)
  /\ running = r
  /\ pc[r] = "append"
  /\ IF ok
     THEN /\ log' = Append(log, stringify(entry(r), 0, "\n"))
          /\ lineOf' = [lineOf EXCEPT ![r] = Len(log) + 1]
          /\ trace' = Log(r, "append")
          /\ UNCHANGED perr
     ELSE /\ trace' = Log(r, "append")
          /\ UNCHANGED <<log, lineOf, perr>>
  /\ pc' = [pc EXCEPT ![r] = "write"]
  /\ UNCHANGED <<now, running, file, imgbbUrl, searchUrl, provider, lensResults,
                 timestamp, uerr, response, tmp, dirs, images, meta>>

\* Lines 53-63: build entry, fs.appendFileSync(historyLogPath, JSON.stringify(entry) + '\n').
PersistAppend(r, ok) ==
  /\ Fault(ok)
  /\ running = r
  /\ pc[r] = "append"
  /\ IF ok
     THEN /\ log' = Append(log, stringify(entry(r), 0, "\n"))
          /\ lineOf' = [lineOf EXCEPT ![r] = Len(log) + 1]
          /\ pc' = [pc EXCEPT ![r] = "write"]
          /\ trace' = Log(r, "append")
          /\ UNCHANGED perr
     ELSE /\ perr' = [perr EXCEPT ![r] = "append"]
          /\ pc' = [pc EXCEPT ![r] = "unlink"]
          /\ trace' = [trace EXCEPT ![r] = @ \o <<"append", "persist_failed">>]
          /\ UNCHANGED <<log, lineOf>>
  /\ UNCHANGED <<now, running, file, imgbbUrl, searchUrl, provider, lensResults,
                 timestamp, uerr, response, tmp, dirs, images, meta>>

\* Lines 66-67: fs.writeFileSync(metaPath, JSON.stringify(entry, null, 2)).
PersistWrite(r, ok) ==
  /\ Fault(ok)
  /\ running = r
  /\ pc[r] = "write"
  /\ IF ok
     THEN /\ meta' = Put(meta, metaPath(timestamp[r]), stringify(entry(r), 2, ""))
          /\ trace' = Log(r, "write")
          /\ UNCHANGED perr
     ELSE /\ perr' = [perr EXCEPT ![r] = "write"]
          /\ trace' = [trace EXCEPT ![r] = @ \o <<"write", "persist_failed">>]
          /\ UNCHANGED meta
  /\ pc' = [pc EXCEPT ![r] = "unlink"]
  /\ UNCHANGED <<now, running, file, imgbbUrl, searchUrl, provider, lensResults,
                 timestamp, uerr, response, lineOf, tmp, dirs, images, log>>

\* Line 72: try { fs.unlinkSync(imagePath); } catch (e) { }
Unlink(r, ok) ==
  /\ Fault(ok)
  /\ running = r
  /\ pc[r] = "unlink"
  /\ IF ok /\ r \in tmp
     THEN tmp' = tmp \ {r} /\ UNCHANGED uerr
     ELSE uerr' = [uerr EXCEPT ![r] = TRUE] /\ UNCHANGED tmp
  /\ pc' = [pc EXCEPT ![r] = "respond"]
  /\ trace' = Log(r, "unlink")
  /\ UNCHANGED <<now, running, file, imgbbUrl, searchUrl, provider, lensResults,
                 timestamp, perr, response, lineOf, dirs, images, meta, log>>

\* Lines 74-78: res.json({ success: true, results, total_matches }).
Respond(r) ==
  /\ UNCHANGED faults
  /\ running = r
  /\ pc[r] = "respond"
  /\ response' = [response EXCEPT ![r] =
                    [status |-> 200,
                     body |-> [success |-> TRUE,
                               results |-> JsonResults(lensResults[r]),
                               total_matches |-> Len(lensResults[r])]]]
  /\ pc' = [pc EXCEPT ![r] = "done"]
  /\ running' = 0
  /\ trace' = Log(r, "respond")
  /\ UNCHANGED <<now, file, imgbbUrl, searchUrl, provider, lensResults, timestamp,
                 perr, uerr, lineOf, tmp, dirs, images, meta, log>>

\* One step of the handler of request r after the request was received.
Steps(r, urls, responses) ==
  \/ \E url \in urls : UploadResolve(r, url)
  \/ \E msg \in UploadErrors : UploadReject(r, msg)
  \/ \E resp \in responses : SearchReturn(r, resp)
  \/ \E ok \in BOOLEAN : PersistMkdir(r, ok)
  \/ \E ok \in BOOLEAN : PersistCopy(r, ok)
  \/ \E ok \in BOOLEAN : PersistAppend(r, ok)
  \/ \E ok \in BOOLEAN : PersistWrite(r, ok)
  \/ \E ok \in BOOLEAN : Unlink(r, ok)
  \/ Respond(r)

\* One step of the handler of request r.
Handler(r, uploads, urls, responses) ==
  \/ \E f \in uploads : Receive(r, f)
  \/ Steps(r, urls, responses)

\* Concurrent requests.
Next ==
  \/ Tick
  \/ \E r \in Requests : Handler(r, Uploads, {UrlOf(r)}, ScanResponses)

Spec == Init /\ [][Next]_vars

\* One scan, with every upload name and provider answer of the model.
NextOne ==
  \/ Tick
  \/ Handler(1, UploadsOne, UrlsOne, LensResponses)

SpecOne == Init /\ [][NextOne]_vars

\* Request 1 is received and may start its search, but the external call it
\* then waits for never returns.  The other requests run as in Next, their
\* external calls return and the event loop runs every callback that is ready.
NextHang ==
  \/ Tick
  \/ \E f \in Uploads : Receive(1, f)
  \/ UploadResolve(1, UrlOf(1))
  \/ \E r \in Requests \ {1} : Handler(r, Uploads, {UrlOf(r)}, ScanResponses)

SpecHang ==
  /\ Init
  /\ [][NextHang]_vars
  /\ \A r \in Requests \ {1} : WF_vars(Steps(r, {UrlOf(r)}, ScanResponses))

\* Concurrent requests within one millisecond of the clock (no step reads
\* Date.now() to decide whether it runs).
NextFair == \E r \in Requests : Handler(r, Uploads, {UrlOf(r)}, ScanResponses)

\* Every external call returns or fails, and the event loop runs every
\* callback that is ready.
SpecFair ==
  /\ Init
  /\ [][NextFair]_vars
  /\ \A r \in Requests : WF_vars(Steps(r, {UrlOf(r)}, ScanResponses))

TypeOK ==
  /\ now \in Times
  /\ faults \in 0..MaxFaults
  /\ running \in 0..NumReq
  /\ tmp \subseteq Requests
  /\ dirs \subseteq Times

\* ------------------------------------------------------------- vocabulary
Has(r, ev) == \E i \in 1..Len(trace[r]) : trace[r][i] = ev

Responded(r) == response[r].status # 0

\* ------------------------------------------------------------------ claims
\* C1: once a request whose upload was staged has been answered, its staged
\* file no longer exists, on the success path and on the path where the
\* image-host upload fails, provided fs.unlinkSync itself did not throw.
C1_StagedFileGone ==
  \A r \in Requests :
    (Responded(r) /\ file[r].present /\ ~uerr[r]) => r \notin tmp

\* C2: a request whose uploadToImgBB fails is answered 500 with success false
\* and the failure's message, googleLensSearch is never called for it, and it
\* leaves history.jsonl and the scan folders as they were.
C2_State ==
  \A r \in Requests :
    Has(r, "upload_failed") =>
      /\ response[r].status = 500
      /\ response[r].body.success = FALSE
      /\ response[r].body.error \in UploadErrors
      /\ response[r].body.error # ""
      /\ searchUrl[r] = Undefined
      /\ provider[r] = NoProvider
      /\ ~Has(r, "search_start")
      /\ timestamp[r] = 0
      /\ lineOf[r] = 0
      /\ pc[r] = "done"

C2_Step ==
  \A r \in Requests :
    \/ (pc[r] = "upload" /\ Has(r, "upload_failed")')
    \/ (Has(r, "upload_failed") /\ trace'[r] # trace[r])
    => UNCHANGED <<log, dirs, images, meta>> /\ pc'[r] = "done"

C2_UploadFailure == [](C2_State) /\ [][C2_Step]_vars

C2_Witness ==
  \E r, q \in Requests :
    /\ Has(r, "upload_failed") /\ Responded(r)
    /\ lineOf[q] > 0

\* C3 as stated: a response is a failure if and only if the request's
\* image-host upload failed.
C3_FailureIffUploadFailed ==
  \A r \in Requests :
    Responded(r) =>
      /\ (response[r].status = 500 /\ ~response[r].body.success)
           <=> Has(r, "upload_failed")
      /\ Has(r, "upload_done") => (response[r].status = 200 /\ response[r].body.success)

\* C3 amended: for a request that carries a file the response is a failure if
\* and only if the upload failed, and a request whose upload succeeded is
\* answered 200 with success true whatever the search provider does; a request
\* without a file part is answered 500 before any upload is attempted.
C3_Amended ==
  \A r \in Requests :
    Responded(r) =>
      /\ response[r].status \in {200, 500}
      /\ response[r].body.success <=> response[r].status = 200
      /\ file[r].present =>
           /\ response[r].status = 500 <=> Has(r, "upload_failed")
           /\ response[r].status = 200 <=> Has(r, "upload_done")
      /\ ~file[r].present =>
           /\ response[r].status = 500
           /\ response[r].body.error = NoFileError
           /\ trace[r] = <<"respond">>

C3_Witness ==
  \E r, q \in Requests :
    /\ provider[r] = Throw /\ response[r].status = 200
    /\ ~file[q].present /\ response[q].status = 500

\* The results and total_matches a request answers with when nothing fails
\* after the search.
Expected(r) ==
  [results |-> JsonResults(googleLensSearch(provider[r])),
   total_matches |-> Len(googleLensSearch(provider[r]))]

\* C4 as stated: when a persistence step fails the request is still answered
\* 200 with the results of the search, and the staged file is deleted before
\* the response.
C4_PersistenceBestEffort ==
  \A r \in Requests :
    perr[r] # "" =>
      /\ Responded(r) =>
           /\ response[r].status = 200
           /\ response[r].body.success
           /\ response[r].body.results = Expected(r).results
           /\ response[r].body.total_matches = Expected(r).total_matches
      /\ pc[r] \in {"respond", "done"} => r \notin tmp

\* C4 amended: the same, the staged file being deleted before the response
\* unless fs.unlinkSync itself threw.
C4_Amended ==
  \A r \in Requests :
    perr[r] # "" =>
      /\ pc[r] \in {"unlink", "respond", "done"}
      /\ Responded(r) =>
           /\ response[r].status = 200
           /\ response[r].body.success
           /\ response[r].body.results = Expected(r).results
           /\ response[r].body.total_matches = Expected(r).total_matches
      /\ (pc[r] \in {"respond", "done"} /\ ~uerr[r]) => r \notin tmp

C4_Witness ==
  \E r \in Requests :
    /\ perr[r] = "copy" /\ response[r].status = 200 /\ r \notin tmp
    /\ provider[r].kind = "ok"

\* The search of request r has returned.
Searched(r) == pc[r] \notin {"idle", "upload", "search"} /\ provider[r].kind # "none"

\* C5: for every successful scan total_matches is the number of entries of
\* results, in the response and in the record persisted for the scan (its
\* line of history.jsonl and its meta.json), and the persisted results are
\* the results of the response.
C5_TotalMatches ==
  \A r \in Requests :
    /\ response[r].status = 200 =>
         response[r].body.total_matches = Len(response[r].body.results)
    /\ lineOf[r] > 0 =>
         LET rec == log[lineOf[r]].json
         IN  /\ rec.total_matches = Len(rec.results)
             /\ response[r].status = 200 => rec.results = response[r].body.results
    /\ (perr[r] = "" /\ timestamp[r] # 0 /\ pc[r] \in {"unlink", "respond", "done"}) =>
         /\ timestamp[r] \in DOMAIN meta
         /\ LET snap == meta[timestamp[r]].json
            IN  /\ snap.total_matches = Len(snap.results)
                /\ response[r].status = 200 => snap.results = response[r].body.results

C5_Witness ==
  /\ response[1].status = 200
  /\ perr[1] = ""
  /\ provider[1].kind = "ok"
  /\ Len(provider[1].visual_matches) > Limit
  /\ meta[timestamp[1]].json.total_matches = Limit

\* The provider gave nothing usable: the request or the parse threw, the body
\* has no visual_matches, or the list is empty.
NothingUsable(resp) ==
  \/ resp.kind \in {"throw", "malformed"}
  \/ resp.kind = "ok" /\ (~resp.present \/ resp.visual_matches = <<>>)

C6_DemoSet ==
  << [title |-> "Facebook Guru Profile", source |-> "Facebook", link |-> "#",
      image |-> "https://via.placeholder.com/300x200/1877F2/fff"],
     [title |-> "Twitter Guru Post", source |-> "Twitter", link |-> "#",
      image |-> "https://via.placeholder.com/300x200/1DA1F2/fff"] >>

\* C6: when the provider answers without visual_matches, with an empty list,
\* or the search throws, googleLensSearch returns exactly the two demo entries
\* ("Facebook Guru Profile", then "Twitter Guru Post") and the request is
\* answered with success true and total_matches 2.
C6_DemoFallback ==
  \A r \in Requests :
    (Searched(r) /\ NothingUsable(provider[r])) =>
      /\ lensResults[r] = C6_DemoSet
      /\ Responded(r) =>
           /\ response[r].status = 200
           /\ response[r].body.success
           /\ response[r].body.total_matches = 2
           /\ response[r].body.results = C6_DemoSet

C6_Witness ==
  /\ provider[1] = Ok(<<>>)
  /\ response[1].status = 200
  /\ response[1].body.total_matches = 2

\* The MatchResult the specification gives for one raw match.
C7_Normal(m) ==
  [title  |-> IF m.title \in {Undefined, ""} THEN "Visual Match" ELSE m.title,
   source |-> IF m.source \in {Undefined, ""} THEN "Web" ELSE m.source,
   link   |-> IF m.link \in {Undefined, ""} THEN "#" ELSE m.link,
   image  |-> IF m.thumbnail \in {Undefined, ""} THEN m.image ELSE m.thumbnail]

\* C7: for n >= 1 raw matches results has exactly min(n, 30) entries, entry i
\* being the normalization of raw match i in provider order; results never
\* holds more than 30 entries and a success response never fewer than 1.
C7_Truncation ==
  \A r \in Requests :
    Searched(r) =>
      /\ Len(lensResults[r]) \in 1..30
      /\ (provider[r].kind = "ok" /\ provider[r].present
            /\ Len(provider[r].visual_matches) >= 1) =>
           LET vm == provider[r].visual_matches
               n  == Len(vm)
           IN  /\ Len(lensResults[r]) = IF n < 30 THEN n ELSE 30
               /\ \A i \in 1..Len(lensResults[r]) : lensResults[r][i] = C7_Normal(vm[i])
      /\ response[r].status = 200 => Len(response[r].body.results) \in 1..30

C7_Witness ==
  /\ provider[1].kind = "ok"
  /\ Len(provider[1].visual_matches) = 31
  /\ response[1].status = 200
  /\ Len(response[1].body.results) = 30
  /\ response[1].body.results[29].title = "m28"

\* C8 as stated: two scans that persist a ScanRecord have distinct ids, so no
\* two requests use the same scan folder and no two lines of history.jsonl
\* carry the same id.
C8_DistinctIds ==
  /\ \A r, q \in Requests :
       (r # q /\ lineOf[r] > 0 /\ lineOf[q] > 0) => timestamp[r] # timestamp[q]
  /\ \A i, j \in 1..Len(log) : i # j => log[i].json.id # log[j].json.id

\* Place of each step in the order of one scan.
C9_Rank(ev) ==
  CASE ev = "staged" -> 1
    [] ev \in {"upload_done", "upload_failed"} -> 2
    [] ev = "search_start" -> 3
    [] ev = "search_done" -> 4
    [] ev = "mkdir" -> 5
    [] ev = "copy" -> 6
    [] ev = "append" -> 7
    [] ev = "write" -> 8
    [] ev = "persist_failed" -> 9
    [] ev = "unlink" -> 10
    [] ev = "respond" -> 11

\* C9: within one scan the upload completes before the search starts, the
\* search completes before any persistence step, persistence ends (done or
\* failed) before the staged file is deleted, the deletion attempt comes
\* before the response, and the search is called with the URL the upload
\* returned.
C9_Order ==
  \A r \in Requests :
    /\ \A i, j \in 1..Len(trace[r]) :
         i < j => C9_Rank(trace[r][i]) < C9_Rank(trace[r][j])
    /\ Has(r, "search_start") =>
         /\ Has(r, "upload_done")
         /\ imgbbUrl[r] = UrlOf(r)
         /\ searchUrl[r] = imgbbUrl[r]
    /\ Has(r, "search_done") => Has(r, "search_start")
    /\ (Has(r, "mkdir") \/ Has(r, "copy") \/ Has(r, "append") \/ Has(r, "write")) =>
         Has(r, "search_done")
    /\ Has(r, "unlink") =>
         /\ Has(r, "mkdir")
         /\ Has(r, "write") \/ Has(r, "persist_failed")
    /\ response[r].status = 200 => Has(r, "unlink")

C9_Witness ==
  \E r \in Requests :
    trace[r] = <<"staged", "upload_done", "search_start", "search_done", "mkdir",
                 "copy", "append", "write", "unlink", "respond">>

\* C10 as stated: once meta.json and the image copy of a scan folder are
\* written, no later step of any request overwrites, changes or deletes them.
C10_Step ==
  \A id \in DOMAIN meta :
    /\ id \in DOMAIN meta'
    /\ meta'[id] = meta[id]
    /\ \A p \in DOMAIN images :
         p.folder = id => (p \in DOMAIN images' /\ images'[p] = images[p])

C10_NeverOverwritten == [][C10_Step]_vars

\* JSON.parse of a text written by JSON.stringify: indentation and the
\* trailing newline are not part of the value.
C11_Parse(text) == text.json

\* C11 as stated: whenever no request is inside its persistence block, there
\* is a log line with id i if and only if folder i holds a meta.json, and the
\* snapshot and the log line deserialize to equal ScanRecords.
C11_LogAndFoldersAgree ==
  running = 0 =>
    \A i \in Times :
      /\ (\E k \in 1..Len(log) : C11_Parse(log[k]).id = i) <=> i \in DOMAIN meta
      /\ i \in DOMAIN meta =>
           \A k \in 1..Len(log) :
             C11_Parse(log[k]).id = i => C11_Parse(log[k]) = C11_Parse(meta[i])

\* C11 amended: whenever folder i holds a meta.json, history.jsonl has a line
\* with id i that deserializes to a ScanRecord equal to the snapshot's.
C11_Amended ==
  \A i \in DOMAIN meta :
    /\ C11_Parse(meta[i]).id = i
    /\ \E k \in 1..Len(log) : C11_Parse(log[k]) = C11_Parse(meta[i])

C11_Witness ==
  /\ running = 0
  /\ \E i \in DOMAIN meta : \E k \in 1..Len(log) : C11_Parse(log[k]).id = i
  /\ \E k \in 1..Len(log) : C11_Parse(log[k]).id \notin DOMAIN meta

\* C12: every request appends at most one line to history.jsonl, and only
\* after its search has returned; a request that has not reached the
\* searched state adds no ScanRecord.
C12_AtMostOneLine ==
  /\ Len(log) = Cardinality({r \in Requests : lineOf[r] > 0})
  /\ \A r \in Requests :
       lineOf[r] > 0 =>
         /\ lineOf[r] \in 1..Len(log)
         /\ \A q \in Requests : (q # r /\ lineOf[q] > 0) => lineOf[q] # lineOf[r]
         /\ Has(r, "search_done")
         /\ Searched(r)
         /\ C11_Parse(log[lineOf[r]]).results = JsonResults(lensResults[r])
         /\ C11_Parse(log[lineOf[r]]).imgbb_url = imgbbUrl[r]
  /\ \A r \in Requests :
       ~Has(r, "search_done") => (lineOf[r] = 0 /\ timestamp[r] = 0)

C12_Witness ==
  \E r, q \in Requests :
    /\ lineOf[r] = 1 /\ pc[r] = "done" /\ Len(log) = 1
    /\ pc[q] = "done" /\ Has(q, "upload_failed")

\* A ScanRecord with all six fields, as one line of JSON Lines.
C13_CompleteLine(line) ==
  /\ line.indent = 0
  /\ line.tail = "\n"
  /\ DOMAIN line.json = {"id", "created_at", "original_image_path", "imgbb_url",
                         "total_matches", "results"}
  /\ line.json.id \in Times
  /\ line.json.total_matches = Len(line.json.results)

C13_Step ==
  /\ Len(log') >= Len(log)
  /\ SubSeq(log', 1, Len(log)) = log

\* C13: history.jsonl is append-only: every step of every request leaves the
\* existing lines unchanged and in order, adds lines only at the end, and
\* each line is one complete ScanRecord.
C13_AppendOnly ==
  /\ [](\A k \in 1..Len(log) : C13_CompleteLine(log[k]))
  /\ [][C13_Step]_vars

C13_Witness ==
  /\ Len(log) = 2
  /\ log[1].json.imgbb_url # log[2].json.imgbb_url

\* C14: a request suspended in an external call that never returns does not
\* keep any other request from going through all its steps to its response.
C14_NoBlocking ==
  \A q \in Requests \ {1} :
    (pc[q] # "idle") ~> (pc[q] = "done" /\ Responded(q))

C14_Witness ==
  \E q \in Requests \ {1} :
    /\ pc[1] = "search"
    /\ trace[q] = <<"staged", "upload_done", "search_start", "search_done", "mkdir",
                    "copy", "append", "write", "unlink", "respond">>
    /\ response[q].status = 200

\* C15 as stated: every MatchResult built from a raw match has title, source,
\* link and image defined, whatever fields the provider omits: title defaults
\* to "Visual Match", source to "Web", link to "#", image is the thumbnail or
\* else the image.
C15_AllFieldsDefined ==
  \A r \in Requests :
    (Searched(r) /\ ~NothingUsable(provider[r])) =>
      \A i \in 1..Len(lensResults[r]) :
        LET m   == provider[r].visual_matches[i]
            out == lensResults[r][i]
        IN  /\ out.title = IF m.title \in {Undefined, ""} THEN "Visual Match" ELSE m.title
            /\ out.source = IF m.source \in {Undefined, ""} THEN "Web" ELSE m.source
            /\ out.link = IF m.link \in {Undefined, ""} THEN "#" ELSE m.link
            /\ out.image = IF m.thumbnail \in {Undefined, ""} THEN m.image ELSE m.thumbnail
            /\ out.title # Undefined
            /\ out.source # Undefined
            /\ out.link # Undefined
            /\ out.image # Undefined

\* Number of responses request r has sent.
C16_Responses(r) == Cardinality({i \in 1..Len(trace[r]) : trace[r][i] = "respond"})

C16_Once ==
  \A r \in Requests :
    /\ C16_Responses(r) <= 1
    /\ Responded(r) <=> C16_Responses(r) = 1
    /\ Responded(r) => pc[r] = "done"

C16_Step == \A r \in Requests : Responded(r) => response'[r] = response[r]

\* C16: if every external call returns or fails, every received request with
\* a staged file eventually gets a response, and exactly one: never a success
\* payload and an error payload.
C16_ExactlyOneResponse ==
  /\ \A r \in Requests : (pc[r] # "idle" /\ file[r].present) ~> Responded(r)
  /\ [](C16_Once)
  /\ [][C16_Step]_vars

C16_Witness ==
  \E r, q \in Requests :
    /\ file[r].present /\ response[r].status = 200 /\ provider[r] = Throw
    /\ file[q].present /\ response[q].status = 500

\* Request r is between the first and the last statement of its persist block.
C17_InBlock(r) == pc[r] \in {"copy", "append", "write"}

C17_State ==
  \A r \in Requests :
    C17_InBlock(r) =>
      /\ running = r
      /\ \A q \in Requests \ {r} : ~C17_InBlock(q)

C17_Step ==
  \A r \in Requests :
    C17_InBlock(r) =>
      /\ \A q \in Requests \ {r} :
           /\ pc'[q] = pc[q]
           /\ trace'[q] = trace[q]
           /\ lineOf'[q] = lineOf[q]
           /\ response'[q] = response[q]
      /\ (log' # log \/ meta' # meta \/ images' # images \/ dirs' # dirs) =>
           trace'[r] # trace[r]

\* C17: the persist block of a request (create folder, copy image, append
\* line, write meta.json) runs without yielding: no step of another request,
\* in particular no append or snapshot write, comes between its first and its
\* last persistence step.
C17_NoYield == [](C17_State) /\ [][C17_Step]_vars

C17_Witness ==
  \E r, q \in Requests :
    /\ r # q
    /\ pc[r] = "append"
    /\ pc[q] = "mkdir"

\* C18: every line of history.jsonl names, in original_image_path, an image
\* copy that exists inside the scan folder named by the line's id: the copy is
\* made before the line is appended, a failed copy appends no line, and no
\* later step removes the copy.
C18_ImageRetained ==
  /\ \A k \in 1..Len(log) :
       LET rec == C11_Parse(log[k])
       IN  /\ rec.original_image_path.folder = rec.id
           /\ rec.id \in dirs
           /\ rec.original_image_path \in DOMAIN images
  /\ \A r \in Requests :
       /\ perr[r] \in {"mkdir", "copy"} => lineOf[r] = 0
       /\ Has(r, "append") => (Has(r, "copy") /\ perr[r] # "copy")
       /\ lineOf[r] > 0 =>
            C11_Parse(log[lineOf[r]]).original_image_path =
              SavedImagePath(timestamp[r], file[r])

C18_Witness ==
  \E r, q \in Requests :
    /\ lineOf[r] > 0 /\ pc[r] = "done" /\ r \notin tmp
    /\ perr[q] = "copy" /\ pc[q] = "done"

====
